---- MODULE Spec2Model ----
(***************************************************************************)
(* Model of neat-python's configuration core (neat/config.py) and of the   *)
(* aggregation function registry (neat/aggregations.py).                   *)
(*                                                                         *)
(* Strings are sequences of one-character strings, so that the string      *)
(* conversions of the code (lower, split, join, int, float, str, the       *)
(* reader's interpolation) are computed character by character.            *)
(***************************************************************************)
EXTENDS Integers, Sequences, FiniteSets, TLC

(***************************************************************************)
(* Bounds of the model.                                                    *)
(***************************************************************************)
MaxListLen == 3
MaxInt == 12
MaxUnknown == 2
MaxDeviations == 2
MaxSchemaLen == 3

None == "<None>"

(***************************************************************************)
(* Python string primitives.                                               *)
(***************************************************************************)
Digits == <<"0", "1", "2", "3", "4", "5", "6", "7", "8", "9">>

IsDigit(c) == \E i \in 1..10 : Digits[i] = c

DigitVal(c) == (CHOOSE i \in 1..10 : Digits[i] = c) - 1

AllDigits(s) == \A i \in 1..Len(s) : IsDigit(s[i])

\* str.lower() on one character of the model's alphabet
LowerChar(c) ==
    CASE c = "A" -> "a" [] c = "E" -> "e" [] c = "F" -> "f"
      [] c = "L" -> "l" [] c = "N" -> "n" [] c = "O" -> "o"
      [] c = "R" -> "r" [] c = "S" -> "s" [] c = "T" -> "t"
      [] c = "U" -> "u" [] c = "Y" -> "y"
      [] OTHER -> c

Lower(s) == [i \in 1..Len(s) |-> LowerChar(s[i])]

\* the value of a non-empty run of decimal digits
RECURSIVE DigitsVal(_)
DigitsVal(s) ==
    IF s = <<>> THEN 0
    ELSE 10 * DigitsVal(SubSeq(s, 1, Len(s) - 1)) + DigitVal(s[Len(s)])

\* the decimal digits of a natural number
RECURSIVE NatStr(_)
NatStr(n) ==
    IF n < 10 THEN <<Digits[n + 1]>>
    ELSE NatStr(n \div 10) \o <<Digits[(n % 10) + 1]>>

\* str(int)
StrInt(n) == IF n < 0 THEN <<"-">> \o NatStr(0 - n) ELSE NatStr(n)

\* int(str): an optional sign followed by at least one digit
IntOf(s) ==
    LET body == IF s # <<>> /\ s[1] \in {"-", "+"} THEN Tail(s) ELSE s
        neg == s # <<>> /\ s[1] = "-"
    IN IF body # <<>> /\ AllDigits(body)
       THEN [ok |-> TRUE, v |-> IF neg THEN 0 - DigitsVal(body) ELSE DigitsVal(body)]
       ELSE [ok |-> FALSE, v |-> 0]

RECURSIVE Pow10(_)
Pow10(e) == IF e = 0 THEN 1 ELSE 10 * Pow10(e - 1)

\* A float is the decimal m / 10^e with trailing zeros of the fraction dropped.
RECURSIVE NormFloat(_, _)
NormFloat(m, e) ==
    IF e > 0 /\ m % 10 = 0 THEN NormFloat(m \div 10, e - 1)
    ELSE [m |-> m, e |-> e]

IndexOf(s, c) ==
    IF \E i \in 1..Len(s) : s[i] = c
    THEN CHOOSE i \in 1..Len(s) : s[i] = c /\ \A j \in 1..(i - 1) : s[j] # c
    ELSE 0

\* float(str): [sign] digits [ "." digits ]
FloatOf(s) ==
    LET body == IF s # <<>> /\ s[1] \in {"-", "+"} THEN Tail(s) ELSE s
        neg == s # <<>> /\ s[1] = "-"
        dot == IndexOf(body, ".")
        ip == IF dot = 0 THEN body ELSE SubSeq(body, 1, dot - 1)
        fp == IF dot = 0 THEN <<>> ELSE SubSeq(body, dot + 1, Len(body))
        mag == DigitsVal(ip \o fp)
    IN IF ip # <<>> /\ AllDigits(ip) /\ AllDigits(fp)
       THEN [ok |-> TRUE,
             v |-> NormFloat(IF neg THEN 0 - mag ELSE mag, Len(fp))]
       ELSE [ok |-> FALSE, v |-> NormFloat(0, 0)]

RECURSIVE ZeroPad(_, _)
ZeroPad(s, n) == IF Len(s) >= n THEN s ELSE ZeroPad(<<"0">> \o s, n)

\* str(float): the shortest decimal that reads back, always with a fraction
StrFloat(f) ==
    LET mag == IF f.m < 0 THEN 0 - f.m ELSE f.m
        sign == IF f.m < 0 THEN <<"-">> ELSE <<>>
        ip == NatStr(mag \div Pow10(f.e))
        fp == IF f.e = 0 THEN <<"0">>
              ELSE ZeroPad(NatStr(mag % Pow10(f.e)), f.e)
    IN sign \o ip \o <<".">> \o fp

\* str(bool)
StrBool(b) == IF b THEN <<"T", "r", "u", "e">> ELSE <<"F", "a", "l", "s", "e">>

\* str.split(" "): a token ends at every single space, empty tokens are kept
RECURSIVE Split(_)
Split(s) ==
    LET i == IndexOf(s, " ")
    IN IF i = 0 THEN <<s>>
       ELSE <<SubSeq(s, 1, i - 1)>> \o Split(SubSeq(s, i + 1, Len(s)))

\* " ".join(list)
RECURSIVE Join(_)
Join(l) ==
    IF l = <<>> THEN <<>>
    ELSE IF Len(l) = 1 THEN l[1]
    ELSE l[1] \o <<" ">> \o Join(Tail(l))

(***************************************************************************)
(* Errors.  An error is named by its Python class and, for RuntimeError,   *)
(* by the message the code raises it with.                                 *)
(***************************************************************************)
NoSectionError == "configparser.NoSectionError"
NoOptionError == "configparser.NoOptionError"
InterpolationSyntaxError == "configparser.InterpolationSyntaxError"
ValueError == "ValueError"
UnexpectedTypeError == "RuntimeError: Unexpected configuration type"
MissingItemError == "RuntimeError: Missing configuration item"
MustBeTrueOrFalseError == "RuntimeError: must be True or False"
ErrorInterpretingError == "RuntimeError: Error interpreting config item"
NoNEATSectionError == "RuntimeError: 'NEAT' section not found"
NoSuchFileError == "Exception: No such config file"
UnknownConfigItemError == "UnknownConfigItemError"
ParseConfigError == "error raised by parse_config"

\* the classes named by `except (Error, RuntimeError)`
IsReaderError(e) == e \in {NoSectionError, NoOptionError, InterpolationSyntaxError}

IsRuntimeError(e) ==
    e \in {UnexpectedTypeError, MissingItemError, MustBeTrueOrFalseError,
           ErrorInterpretingError, NoNEATSectionError}

Ok(v) == [err |-> None, v |-> <<v>>]

Raise(e) == [err |-> e, v |-> <<>>]

(***************************************************************************)
(* The section reader (ConfigParser with its default interpolation).  A    *)
(* parser is a function from the names of the sections of the file to      *)
(* mappings from option name to raw string.                                *)
(***************************************************************************)
\* BasicInterpolation: "%%" reads as "%", any other "%" is a syntax error
\* (the model's alphabet has no "(", so "%(name)s" references do not occur)
RECURSIVE Interpolate(_)
Interpolate(s) ==
    IF s = <<>> THEN Ok(<<>>)
    ELSE IF s[1] # "%"
         THEN LET r == Interpolate(Tail(s))
              IN IF r.err # None THEN r ELSE Ok(<<s[1]>> \o r.v[1])
    ELSE IF Len(s) >= 2 /\ s[2] = "%"
         THEN LET r == Interpolate(SubSeq(s, 3, Len(s)))
              IN IF r.err # None THEN r ELSE Ok(<<"%">> \o r.v[1])
    ELSE Raise(InterpolationSyntaxError)

\* ConfigParser.get(section, option)
ReaderGet(parser, section, option) ==
    IF section \notin DOMAIN parser THEN Raise(NoSectionError)
    ELSE IF option \notin DOMAIN parser[section] THEN Raise(NoOptionError)
    ELSE Interpolate(parser[section][option])

\* ConfigParser.BOOLEAN_STATES
BooleanTrue ==
    {<<"1">>, <<"y", "e", "s">>, <<"t", "r", "u", "e">>, <<"o", "n">>}

BooleanFalse ==
    {<<"0">>, <<"n", "o">>, <<"f", "a", "l", "s", "e">>, <<"o", "f", "f">>}

\* ConfigParser.getboolean
ReaderGetBoolean(parser, section, option) ==
    LET r == ReaderGet(parser, section, option)
    IN IF r.err # None THEN r
       ELSE IF Lower(r.v[1]) \in BooleanTrue THEN Ok(TRUE)
       ELSE IF Lower(r.v[1]) \in BooleanFalse THEN Ok(FALSE)
       ELSE Raise(ValueError)

\* ConfigParser.getint
ReaderGetInt(parser, section, option) ==
    LET r == ReaderGet(parser, section, option)
    IN IF r.err # None THEN r
       ELSE IF IntOf(r.v[1]).ok THEN Ok(IntOf(r.v[1]).v) ELSE Raise(ValueError)

\* ConfigParser.getfloat
ReaderGetFloat(parser, section, option) ==
    LET r == ReaderGet(parser, section, option)
    IN IF r.err # None THEN r
       ELSE IF FloatOf(r.v[1]).ok THEN Ok(FloatOf(r.v[1]).v) ELSE Raise(ValueError)

\* ConfigParser.items(section): every value of the section is interpolated
ReaderItems(parser, section) ==
    IF section \notin DOMAIN parser THEN Raise(NoSectionError)
    ELSE IF \E k \in DOMAIN parser[section] :
                Interpolate(parser[section][k]).err # None
         THEN Raise(InterpolationSyntaxError)
    ELSE Ok([k \in DOMAIN parser[section] |->
                Interpolate(parser[section][k]).v[1]])

(***************************************************************************)
(* ConfigParameter.  A descriptor is a record [name, value_type, default]; *)
(* value_type is the name of a Python type, default is <<>> (None) or      *)
(* <<[t |-> type, v |-> value]>>.                                          *)
(***************************************************************************)
ConfigParameter(name, value_type, default) ==
    [name |-> name, value_type |-> value_type, default |-> default]

NoDefault == <<>>

Default(t, v) == <<[t |-> t, v |-> v]>>

\* isinstance(value of type t, value_type); bool is a subclass of int
IsInstance(t, value_type) == t = value_type \/ (t = "bool" /\ value_type = "int")

\* str(value) for a value of Python type t
PyStr(t, v) ==
    CASE t = "str" -> v
      [] t = "int" -> StrInt(v)
      [] t = "bool" -> StrBool(v)
      [] t = "float" -> StrFloat(v)

\* ConfigParameter.parse
parse(p, section, config_parser) ==
    IF p.value_type = "int" THEN ReaderGetInt(config_parser, section, p.name)
    ELSE IF p.value_type = "bool" THEN ReaderGetBoolean(config_parser, section, p.name)
    ELSE IF p.value_type = "float" THEN ReaderGetFloat(config_parser, section, p.name)
    ELSE IF p.value_type = "list"
         THEN LET r == ReaderGet(config_parser, section, p.name)
              IN IF r.err # None THEN r ELSE Ok(Split(r.v[1]))
    ELSE IF p.value_type = "str" THEN ReaderGet(config_parser, section, p.name)
    ELSE Raise(UnexpectedTypeError)

\* the try block of ConfigParameter.interpret, before its except clause:
\* value is [t, v], a raw string of the mapping or the default
interpretConvert(p, value) ==
    IF p.value_type = "str" THEN Ok(PyStr(value.t, value.v))
    ELSE IF p.value_type = "int"
         THEN IF value.t = "str"
              THEN IF IntOf(value.v).ok THEN Ok(IntOf(value.v).v) ELSE Raise(ValueError)
              ELSE Raise("TypeError")
    ELSE IF p.value_type = "bool"
         THEN IF value.t # "str" THEN Raise("AttributeError")
              ELSE IF Lower(value.v) = <<"t", "r", "u", "e">> THEN Ok(TRUE)
              ELSE IF Lower(value.v) = <<"f", "a", "l", "s", "e">> THEN Ok(FALSE)
              ELSE Raise(MustBeTrueOrFalseError)
    ELSE IF p.value_type = "float"
         THEN IF value.t = "str"
              THEN IF FloatOf(value.v).ok THEN Ok(FloatOf(value.v).v) ELSE Raise(ValueError)
              ELSE IF value.t = "int" THEN Ok(NormFloat(value.v, 0))
              ELSE Raise("TypeError")
    ELSE IF p.value_type = "list"
         THEN IF value.t = "str" THEN Ok(Split(value.v)) ELSE Raise("AttributeError")
    ELSE Raise(UnexpectedTypeError)

\* ConfigParameter.interpret; warned counts the diagnostics it emits
interpret(p, config_dict) ==
    LET absent == p.name \notin DOMAIN config_dict
        value == IF absent THEN p.default[1]
                 ELSE [t |-> "str", v |-> config_dict[p.name]]
        r == interpretConvert(p, value)
        warned == IF absent THEN 1 ELSE 0
    IN IF absent /\ p.default = NoDefault
       THEN [err |-> MissingItemError, v |-> <<>>, warned |-> 0]
       ELSE IF absent /\ p.value_type # "str" /\ IsInstance(value.t, p.value_type)
       THEN [err |-> None, v |-> <<value.v>>, warned |-> 1]
       ELSE IF r.err = None THEN [err |-> None, v |-> r.v, warned |-> warned]
       ELSE IF r.err = UnexpectedTypeError /\ p.value_type \notin {"str", "int", "bool", "float", "list"}
       THEN [err |-> UnexpectedTypeError, v |-> <<>>, warned |-> warned]
       ELSE [err |-> ErrorInterpretingError, v |-> <<>>, warned |-> warned]

RECURSIVE Concat(_)
Concat(l) == IF l = <<>> THEN <<>> ELSE l[1] \o Concat(Tail(l))

\* format with the list joined on the empty string
format_nosep(p, value) ==
    IF p.value_type = "list" THEN Concat(value)
    ELSE PyStr(p.value_type, value)

\* ConfigParameter.format
format(p, value) ==
    IF p.value_type = "list" THEN Join(value)
    ELSE PyStr(p.value_type, value)

(***************************************************************************)
(* DefaultClassConfig.__init__.  The result is the error raised, if any,   *)
(* the message of an UnknownConfigItemError ([form, keys]: which of the    *)
(* two message texts, and the keys it lists), the attributes set on the    *)
(* object and the number of diagnostics emitted.                           *)
(***************************************************************************)
NoMsg == [form |-> None, keys |-> {}]

\* the two message texts of UnknownConfigItemError
UnknownMsg(unknown_list) ==
    [form |-> IF Cardinality(unknown_list) > 1
              THEN "Unknown configuration items:"
              ELSE "Unknown configuration item",
     keys |-> IF Cardinality(unknown_list) > 1
              THEN unknown_list
              ELSE {CHOOSE x \in unknown_list : TRUE}]

\* the two message texts of the UnknownConfigItemError of the NEAT section
UnknownMsgNEAT(unknown_list) ==
    [form |-> IF Cardinality(unknown_list) > 1
              THEN "Unknown (section 'NEAT') configuration items:"
              ELSE "Unknown (section 'NEAT') configuration item",
     keys |-> IF Cardinality(unknown_list) > 1
              THEN unknown_list
              ELSE {CHOOSE x \in unknown_list : TRUE}]

\* the loop over param_list: interpret of each descriptor, in order
InterpretAll(param_dict, param_list) ==
    [i \in 1..Len(param_list) |-> interpret(param_list[i], param_dict)]

\* index of the first descriptor whose interpret raises, 0 if none does
FirstInterpretFailure(interpreted) ==
    LET bad == {i \in 1..Len(interpreted) : interpreted[i].err # None}
    IN IF bad = {} THEN 0 ELSE CHOOSE i \in bad : \A j \in bad : i <= j

\* DefaultClassConfig.__init__ given the results of interpret and the index
\* ff of the first that raises
ClassConfig(param_dict, param_list, interpreted, ff) ==
    LET done == IF ff = 0 THEN Len(param_list) ELSE ff - 1
        param_list_names == {param_list[i].name : i \in 1..done}
        attrs == [n \in param_list_names |->
                    interpreted[CHOOSE j \in 1..done : param_list[j].name = n].v[1]]
        warned == Cardinality({i \in 1..Len(param_list) :
                      i <= (IF ff = 0 THEN done ELSE ff)
                      /\ interpreted[i].warned = 1})
        unknown_list == {x \in DOMAIN param_dict : x \notin param_list_names}
    IN IF ff # 0
       THEN [err |-> interpreted[ff].err, msg |-> NoMsg,
             attrs |-> attrs, warned |-> warned]
       ELSE IF unknown_list # {}
       THEN [err |-> UnknownConfigItemError, msg |-> UnknownMsg(unknown_list),
             attrs |-> attrs, warned |-> warned]
       ELSE [err |-> None, msg |-> NoMsg, attrs |-> attrs, warned |-> warned]

DefaultClassConfig(param_dict, param_list) ==
    ClassConfig(param_dict, param_list, InterpretAll(param_dict, param_list),
                FirstInterpretFailure(InterpretAll(param_dict, param_list)))

(***************************************************************************)
(* Inputs of the model: raw strings, values and descriptors.               *)
(***************************************************************************)
Absent == <<"<absent>">>

\* the mapping that binds the keys of f whose value is not Absent
MkDict(f) == [k \in {x \in DOMAIN f : f[x] # Absent} |-> f[k]]

RawLiterals ==
    {<<"t", "r", "u", "e">>, <<"T", "r", "u", "e">>, <<"T", "R", "U", "E">>,
     <<"f", "a", "l", "s", "e">>, <<"F", "a", "l", "s", "e">>,
     <<"y", "e", "s">>, <<"O", "n">>, <<"0">>, <<"1">>,
     <<"m", "a", "y", "b", "e">>, <<"1", "2">>, <<"-", "5">>,
     <<"3", ".", "9">>, <<"3", ".", "5", "0">>, <<"x">>, <<>>,
     <<"a", " ", "b", " ", "c">>, <<"a", " ", " ", "b">>,
     <<"5", "0", "%">>, <<"1", "0", "0", "%", "%">>}

Kinds == {"str", "int", "bool", "float", "list"}

\* a value_type that parse and interpret have no branch for
UnsupportedKinds == {"dict"}

Tokens == {<<"a">>, <<"b">>, <<"c">>, <<>>}

SeqsUpTo(S, n) == UNION {[1..k -> S] : k \in 0..n}

StrValues ==
    {<<"m", "a", "x">>, <<>>, <<"1", "0", "0", "%">>, <<"a", " ", "b">>,
     <<"T", "r", "u", "e">>}

FloatValues == {NormFloat(m, e) : m \in (0 - MaxInt)..MaxInt, e \in 0..2}

ValuesOf(kind) ==
    CASE kind = "str" -> StrValues
      [] kind = "int" -> (0 - MaxInt)..MaxInt
      [] kind = "bool" -> BOOLEAN
      [] kind = "float" -> FloatValues
      [] kind = "list" -> SeqsUpTo(Tokens, MaxListLen)

\* the defaults a descriptor of the kind is given: none, one of the kind's
\* type, or one written as a string
DefaultsOf(kind) ==
    CASE kind = "str" -> <<NoDefault, Default("str", <<"m", "a", "x">>)>>
      [] kind = "int" -> <<NoDefault, Default("int", 7), Default("str", <<"7">>)>>
      [] kind = "bool" -> <<NoDefault, Default("bool", FALSE),
                            Default("str", <<"F", "a", "l", "s", "e">>)>>
      [] kind = "float" -> <<NoDefault, Default("float", NormFloat(25, 1)),
                             Default("str", <<"2", ".", "5">>)>>
      [] kind = "list" -> <<NoDefault, Default("list", <<<<"a">>>>),
                            Default("str", <<"a">>)>>
      [] kind = "dict" -> <<NoDefault, Default("dict", <<>>),
                            Default("str", <<"a">>)>>

\* the descriptors of the model, by kind and choice of default
Descriptor(kind, i) == ConfigParameter("x", kind, DefaultsOf(kind)[i])

DescriptorIds == {<<k, i>> \in Kinds \X (1..3) : i <= Len(DefaultsOf(k))}

\* the descriptors of the supported kinds and of the unsupported ones
AllDescriptorIds ==
    DescriptorIds
    \cup {<<k, i>> \in UnsupportedKinds \X (1..3) : i <= Len(DefaultsOf(k))}

\* the schema the component sections of the model are parsed against
ComponentSchema ==
    <<ConfigParameter("a", "int", NoDefault),
      ConfigParameter("b", "bool", Default("bool", FALSE))>>

UnknownPool == <<"stray1", "stray2", "stray3", "stray4">>

UnknownKeys == {UnknownPool[i] : i \in 1..MaxUnknown}

ComponentDicts ==
    {MkDict(f) : f \in
        [{"a", "b"} \cup UnknownKeys ->
            {Absent, <<"1">>, <<"t", "r", "u", "e">>, <<"x">>}]}

VARIABLES functions, aggset, regop, disk, config, outcome, saved, pin, pout

vars == <<functions, aggset, regop, disk, config, outcome, saved, pin, pout>>

regVars == <<functions, aggset, regop>>

cfgVars == <<disk, config, outcome, saved>>

paramVars == <<pin, pout>>

(***************************************************************************)
(* Descriptor operations applied to the inputs.                            *)
(***************************************************************************)
NoResult == [err |-> None, v |-> <<>>, warned |-> 0]

InitParam ==
    /\ pin = [op |-> "none", p |-> <<>>, raw |-> <<>>, v |-> <<>>]
    /\ pout = [fmt |-> <<>>, res |-> NoResult]

\* p.interpret(config_dict) on a mapping that binds p.name to raw, or nothing
Interpret ==
    \E d \in AllDescriptorIds, raw \in RawLiterals \cup {Absent} :
      LET p == Descriptor(d[1], d[2]) IN
        /\ pin.op = "none"
        /\ pin' = [op |-> "interpret", p |-> <<p>>, raw |-> <<raw>>, v |-> <<>>]
        /\ pout' = [fmt |-> <<>>, res |-> interpret(p, MkDict([k \in {p.name} |-> raw]))]
        /\ UNCHANGED <<regVars, cfgVars>>

\* p.parse(section, config_parser) on a file whose section binds p.name to raw
Parse ==
    \E d \in AllDescriptorIds, raw \in RawLiterals \cup {Absent} :
        LET p == Descriptor(d[1], d[2])
            r == parse(p, "NEAT", [s \in {"NEAT"} |-> MkDict([k \in {p.name} |-> raw])])
        IN /\ pin.op = "none"
           /\ pin' = [op |-> "parse", p |-> <<p>>, raw |-> <<raw>>, v |-> <<>>]
           /\ pout' = [fmt |-> <<>>, res |-> [err |-> r.err, v |-> r.v, warned |-> 0]]
           /\ UNCHANGED <<regVars, cfgVars>>

\* p.interpret({p.name: p.format(v)})
FormatInterpret ==
    \E d \in DescriptorIds :
      LET p == Descriptor(d[1], d[2]) IN
        \E v \in ValuesOf(p.value_type) :
            /\ pin.op = "none"
            /\ pin' = [op |-> "format_interpret", p |-> <<p>>, raw |-> <<>>, v |-> <<v>>]
            /\ pout' = [fmt |-> <<format(p, v)>>,
                        res |-> interpret(p, [k \in {p.name} |-> format(p, v)])]
            /\ UNCHANGED <<regVars, cfgVars>>

(***************************************************************************)
(* The function registry.  The backing store (MultiParameterSet) maps each *)
(* category to a mapping from name to callable.                            *)
(***************************************************************************)
Categories == {"aggregation", "activation"}

NotCallableError == "TypeError: not callable"
DuplicateNameError == "DuplicateName"
NameNotFoundError == "NameNotFound"

\* a constructor that leaves maxabs out
BuiltinAggregations_without_maxabs ==
    <<[name |-> "product", function |-> "product_aggregation"],
      [name |-> "sum", function |-> "sum_aggregation"],
      [name |-> "max", function |-> "max_aggregation"],
      [name |-> "min", function |-> "min_aggregation"]>>

\* the adds of AggregationFunctionSet.__init__
BuiltinAggregations ==
    <<[name |-> "product", function |-> "product_aggregation"],
      [name |-> "sum", function |-> "sum_aggregation"],
      [name |-> "max", function |-> "max_aggregation"],
      [name |-> "min", function |-> "min_aggregation"],
      [name |-> "maxabs", function |-> "maxabs_aggregation"]>>

\* values user code passes to add: two functions and a number
UserValues == {"plus_activation", "user_function", "1.0"}

IsCallable(f) == f # "1.0"

\* MultiParameterSet.add_func
add_func(mps, name, function, which_type) ==
    IF ~IsCallable(function) THEN [mps |-> mps, err |-> NotCallableError]
    ELSE IF name \in DOMAIN mps[which_type]
    THEN [mps |-> mps, err |-> DuplicateNameError]
    ELSE [mps |-> [mps EXCEPT ![which_type] =
                      [n \in DOMAIN mps[which_type] \cup {name} |->
                          IF n = name THEN function ELSE mps[which_type][n]]],
          err |-> None]

\* MultiParameterSet.get_func
get_func(mps, name, which_type) ==
    IF name \in DOMAIN mps[which_type]
    THEN [err |-> None, v |-> mps[which_type][name]]
    ELSE [err |-> NameNotFoundError, v |-> None]

\* MultiParameterSet.is_valid_func
is_valid_func(mps, name, which_type) == name \in DOMAIN mps[which_type]

\* add that registers under another category than the registry's own
add_wrong_category(mps, name, function) ==
    add_func(mps, name, function, "activation")

\* add that, on a failed add_func, still binds the name
add_overwrite(mps, name, function) ==
    LET r == add_func(mps, name, function, "aggregation")
    IN IF r.err = None THEN r
       ELSE [mps |-> [mps EXCEPT !["aggregation"] =
                        [n \in DOMAIN mps["aggregation"] \cup {name} |->
                            IF n = name THEN function ELSE mps["aggregation"][n]]],
             err |-> r.err]

\* AggregationFunctionSet.add
add(mps, name, function) == add_func(mps, name, function, "aggregation")

\* AggregationFunctionSet.get
get(mps, name) == get_func(mps, name, "aggregation")

\* is_valid that looks the name up in another category than get does
is_valid_wrong_category(mps, name) == is_valid_func(mps, name, "activation")

\* AggregationFunctionSet.is_valid
is_valid(mps, name) == is_valid_func(mps, name, "aggregation")

\* the add, get and is_valid of the registry bound to the category
add_in(which_type, mps, name, function) ==
    IF which_type = "aggregation" THEN add(mps, name, function)
    ELSE add_func(mps, name, function, which_type)

get_in(which_type, mps, name) ==
    IF which_type = "aggregation" THEN get(mps, name)
    ELSE get_func(mps, name, which_type)

is_valid_in(which_type, mps, name) ==
    IF which_type = "aggregation" THEN is_valid(mps, name)
    ELSE is_valid_func(mps, name, which_type)

\* the adds of AggregationFunctionSet.__init__, from the i-th on; the first
\* one that fails ends the constructor
RECURSIVE AddBuiltins(_, _)
AddBuiltins(mps, i) ==
    IF i > Len(BuiltinAggregations) THEN [mps |-> mps, err |-> None]
    ELSE LET r == add(mps, BuiltinAggregations[i].name, BuiltinAggregations[i].function)
         IN IF r.err # None THEN r ELSE AddBuiltins(r.mps, i + 1)

AddNames == {"sum", "plus"}

QueryNames == AddNames \cup {"product", "max", "min", "maxabs", "Sum", "missing"}

\* the record of the last call: its arguments, its outcome and the store
\* it was made on
Call(op, cat, name, function, err, ret, pre) ==
    [op |-> op, cat |-> cat, name |-> name, function |-> function,
     err |-> err, ret |-> ret, pre |-> pre]

InitReg ==
    /\ functions = [c \in Categories |-> <<>>]
    /\ aggset = FALSE
    /\ regop = Call("none", None, None, None, None, <<>>, functions)

\* the registry of a category exists once its constructor has run
Bound(which_type) == which_type = "aggregation" => aggset

\* AggregationFunctionSet(multiparameterset)
AggInit ==
    /\ ~aggset
    /\ LET r == AddBuiltins(functions, 1)
       IN /\ functions' = r.mps
          /\ aggset' = (r.err = None)
          /\ regop' = Call("init", "aggregation", None, None, r.err, <<>>, functions)
    /\ UNCHANGED <<cfgVars, paramVars>>

RegAdd ==
    \E c \in Categories, name \in AddNames, function \in UserValues :
        /\ Bound(c)
        /\ LET r == add_in(c, functions, name, function)
           IN /\ functions' = r.mps
              /\ regop' = Call("add", c, name, function, r.err, <<>>, functions)
        /\ UNCHANGED <<aggset, cfgVars, paramVars>>

RegGet ==
    \E c \in Categories, name \in QueryNames :
        /\ Bound(c)
        /\ LET r == get_in(c, functions, name)
           IN regop' = Call("get", c, name, None, r.err, <<r.v>>, functions)
        /\ UNCHANGED <<functions, aggset, cfgVars, paramVars>>

RegIsValid ==
    \E c \in Categories, name \in QueryNames :
        /\ Bound(c)
        /\ regop' = Call("is_valid", c, name, None, None,
                         <<is_valid_in(c, functions, name)>>, functions)
        /\ UNCHANGED <<functions, aggset, cfgVars, paramVars>>

(***************************************************************************)
(* Config: the root configuration.  A file is a function from the labels   *)
(* of its sections to mappings from option name to raw string; an object   *)
(* is the function from the names of the attributes set on it to their     *)
(* values.                                                                 *)
(***************************************************************************)
\* Config.__params
params ==
    <<ConfigParameter("pop_size", "int", NoDefault),
      ConfigParameter("fitness_criterion", "str", NoDefault),
      ConfigParameter("fitness_threshold", "float", NoDefault),
      ConfigParameter("reset_on_extinction", "bool", NoDefault),
      ConfigParameter("no_fitness_termination", "bool", Default("bool", FALSE))>>

ParamNames == {params[i].name : i \in 1..Len(params)}

ParamNamed(name) == params[CHOOSE i \in 1..Len(params) : params[i].name = name]

\* the arguments of the constructor that name the component types, in order
ConstructorArgs ==
    <<"genome_type", "reproduction_type", "species_set_type", "stagnation_type">>

\* the component slots in the order __init__ parses them
ParseOrder == <<"genome", "species_set", "stagnation", "reproduction">>

Slots == {ParseOrder[i] : i \in 1..Len(ParseOrder)}

TypeAttr(slot) == slot \o "_type"

ConfigAttr(slot) == slot \o "_config"

\* the component types the caller passes, by constructor argument (__name__)
Types ==
    [genome_type |-> "DefaultGenome", reproduction_type |-> "DefaultReproduction",
     species_set_type |-> "DefaultSpeciesSet", stagnation_type |-> "DefaultStagnation"]

\* parse_config of a component type: the component types of the model are
\* built on DefaultClassConfig
parse_config(label, param_dict) == DefaultClassConfig(param_dict, ComponentSchema)

\* write_pretty_params, as the mapping the reader reads back from the lines
\* written: one line per descriptor, name = format(value)
write_pretty_params(config_, params_) ==
    [n \in {params_[i].name : i \in 1..Len(params_)} |->
        LET q == params_[CHOOSE i \in 1..Len(params_) : params_[i].name = n]
        IN format(q, config_[n])]

\* write_config of a component type (DefaultClassConfig.write_config)
write_config(label, config_) == write_pretty_params(config_, ComponentSchema)

\* the except clause of the loop over __params: r is the result of parse;
\* the default is substituted when a default exists and parse raised an
\* Error or a RuntimeError
SubstituteDefault(p, r) ==
    IF p.default = NoDefault THEN [err |-> r.err, v |-> r.v, warned |-> 0]
    ELSE IF r.err = None THEN [err |-> None, v |-> r.v, warned |-> 0]
    ELSE IF IsReaderError(r.err) \/ IsRuntimeError(r.err)
    THEN [err |-> None, v |-> <<p.default[1].v>>, warned |-> 1]
    ELSE [err |-> r.err, v |-> <<>>, warned |-> 0]

\* one pass of the loop over __params
ResolveParam(p, parameters) == SubstituteDefault(p, parse(p, "NEAT", parameters))

\* the loop over __params: the resolution of each parameter, in order
ResolveAll(parameters) ==
    [i \in 1..Len(params) |-> ResolveParam(params[i], parameters)]

\* index of the first global parameter whose resolution raises, 0 if none
FirstParamFailure(resolved) ==
    LET bad == {i \in 1..Len(resolved) : resolved[i].err # None}
    IN IF bad = {} THEN 0 ELSE CHOOSE i \in bad : \A j \in bad : i <= j

\* the outcome of __init__: the stage it ended in, the error raised (None
\* if it returned), the message of an UnknownConfigItemError, the names the
\* default diagnostic was emitted for, the attributes set on self, and the
\* parse_config calls made
Outcome(stage, err, msg, warnings, self, calls) ==
    [stage |-> stage, err |-> err, msg |-> msg, warnings |-> warnings,
     self |-> self, calls |-> calls]

\* the names, among the first n parameters, the diagnostic is emitted for
RECURSIVE WarningsUpTo(_, _)
WarningsUpTo(resolved, n) ==
    IF n = 0 THEN <<>>
    ELSE WarningsUpTo(resolved, n - 1) \o
         (IF resolved[n].warned = 1 THEN <<params[n].name>> ELSE <<>>)

RECURSIVE ParseTypeSections(_, _, _, _, _)

\* one pass of "Parse type sections" after parse_config: c is its result
SetTypeConfig(parameters, warnings, self, calls, i, param_dict, c) ==
    IF c.err # None
    THEN Outcome("parse_config", c.err, c.msg, warnings, self,
                 Append(calls, [slot |-> ParseOrder[i],
                                label |-> self[TypeAttr(ParseOrder[i])],
                                dict |-> param_dict, err |-> c.err, msg |-> c.msg]))
    ELSE ParseTypeSections(parameters, warnings,
             (ConfigAttr(ParseOrder[i]) :> c.attrs) @@ self,
             Append(calls, [slot |-> ParseOrder[i],
                            label |-> self[TypeAttr(ParseOrder[i])],
                            dict |-> param_dict, err |-> c.err, msg |-> c.msg]),
             i + 1)

\* a root that validates the section itself: parse_config is handed only the
\* keys of the section that the schema names
ParseTypeSection_validating(parameters, warnings, self, calls, i, items) ==
    IF items.err # None
    THEN Outcome("type section", items.err, NoMsg, warnings, self, calls)
    ELSE SetTypeConfig(parameters, warnings, self, calls, i,
             [k \in DOMAIN items.v[1] \cap
                     {ComponentSchema[j].name : j \in 1..Len(ComponentSchema)} |->
                 items.v[1][k]],
             parse_config(self[TypeAttr(ParseOrder[i])], items.v[1]))

\* one pass of "Parse type sections" after the section is read: items is
\* the result of parameters.items(label)
ParseTypeSection(parameters, warnings, self, calls, i, items) ==
    IF items.err # None
    THEN Outcome("type section", items.err, NoMsg, warnings, self, calls)
    ELSE SetTypeConfig(parameters, warnings, self, calls, i, items.v[1],
             parse_config(self[TypeAttr(ParseOrder[i])], items.v[1]))

\* "Parse type sections": the slots from the i-th on
ParseTypeSections(parameters, warnings, self, calls, i) ==
    IF i > Len(ParseOrder) THEN Outcome("loaded", None, NoMsg, warnings, self, calls)
    ELSE ParseTypeSection(parameters, warnings, self, calls, i,
             ReaderItems(parameters, self[TypeAttr(ParseOrder[i])]))

\* Config.__init__ from the check for unknown items of the NEAT section on
CheckUnknown(parameters, param_dict, param_list_names, warnings, self) ==
    IF param_dict.err # None
    THEN Outcome("items", param_dict.err, NoMsg, warnings, self, <<>>)
    ELSE IF {x \in DOMAIN param_dict.v[1] : x \notin param_list_names} # {}
    THEN Outcome("unknown", UnknownConfigItemError,
                 UnknownMsgNEAT({x \in DOMAIN param_dict.v[1] : x \notin param_list_names}),
                 warnings, self, <<>>)
    ELSE ParseTypeSections(parameters, warnings, self, <<>>, 1)

\* Config.__init__ from the loop over __params on: resolved is the
\* resolution of each parameter, ff the index of the first that raises
LoadParameters(self0, parameters, resolved, ff) ==
    LET done == IF ff = 0 THEN Len(params) ELSE ff - 1
        param_list_names == {params[i].name : i \in 1..done}
        self1 == [n \in param_list_names |->
                     resolved[CHOOSE i \in 1..done : params[i].name = n].v[1]] @@ self0
        warnings == WarningsUpTo(resolved, done)
    IN IF ff # 0
       THEN Outcome("parameter", resolved[ff].err, NoMsg, warnings, self1, <<>>)
       ELSE CheckUnknown(parameters, ReaderItems(parameters, "NEAT"),
                         param_list_names, warnings, self1)

\* Config.__init__(genome_type, reproduction_type, species_set_type,
\* stagnation_type, filename); file is <<>> when filename is no file
Config_init(types, file) ==
    IF file = <<>>
    THEN Outcome("file", NoSuchFileError, NoMsg, <<>>, types, <<>>)
    ELSE IF "NEAT" \notin DOMAIN file[1]
    THEN Outcome("NEAT section", NoNEATSectionError, NoMsg, <<>>, types, <<>>)
    ELSE LoadParameters(types, file[1], ResolveAll(file[1]),
                        FirstParamFailure(ResolveAll(file[1])))

\* save that writes the component sections in the order of the constructor's
\* arguments
Config_save_constructor_order(self) ==
    [order |-> <<"NEAT", self.genome_type, self.reproduction_type,
                 self.species_set_type, self.stagnation_type>>,
     file |-> ("NEAT" :> write_pretty_params(self, params))
              @@ [l \in {self.genome_type, self.reproduction_type,
                         self.species_set_type, self.stagnation_type} |->
                    write_config(l, self.genome_config)]]

\* Config.save: the labels of the sections in the order written, and the
\* file as the reader reads it back
Config_save(self) ==
    [order |-> <<"NEAT", self.genome_type, self.species_set_type,
                 self.stagnation_type, self.reproduction_type>>,
     file |-> ("NEAT" :> write_pretty_params(self, params))
              @@ (self.genome_type :> write_config(self.genome_type, self.genome_config))
              @@ (self.species_set_type :>
                    write_config(self.species_set_type, self.species_set_config))
              @@ (self.stagnation_type :>
                    write_config(self.stagnation_type, self.stagnation_config))
              @@ (self.reproduction_type :>
                    write_config(self.reproduction_type, self.reproduction_config))]

(***************************************************************************)
(* The configuration files of the model.                                   *)
(***************************************************************************)
PopSizeRaws == {Absent, <<"1", "5", "0">>, <<"x">>}

CriterionRaws == {Absent, <<"m", "a", "x">>, <<"1", "0", "0", "%", "%">>}

ThresholdRaws == {<<"3", ".", "9">>, <<"x">>}

ResetRaws == {<<"F", "a", "l", "s", "e">>, <<"y", "e", "s">>, <<"m", "a", "y", "b", "e">>}

NoTerminationRaws ==
    {Absent, <<"T", "r", "u", "e">>, <<"m", "a", "y", "b", "e">>, <<"5", "0", "%">>}

StrayRaws == {Absent, <<"1">>, <<"5", "0", "%">>}

\* a component section: complete, relying on a default, with a value that
\* does not convert, with a key its schema does not name, with such a key
\* whose value holds an escaped "%", or with a value the reader cannot
\* interpolate
ComponentSection(kind) ==
    CASE kind = "ok" -> ("a" :> <<"1">>) @@ ("b" :> <<"t", "r", "u", "e">>)
      [] kind = "default" -> ("a" :> <<"1">>)
      [] kind = "bad" -> ("a" :> <<"x">>)
      [] kind = "stray" -> ("a" :> <<"1">>) @@ ("stray1" :> <<"1">>)
      [] kind = "escaped" -> ("a" :> <<"1">>) @@ ("stray1" :> <<"1", "%", "%">>)
      [] kind = "percent" -> ("a" :> <<"5", "%">>)

\* the component sections of a file: at most one of them differs from a
\* complete one, or is missing
ComponentChoices ==
    {[s \in Slots |-> "ok"]}
    \cup {[s \in Slots |-> IF s = t THEN k ELSE "ok"] :
            t \in Slots, k \in {"absent", "default", "bad", "stray", "escaped", "percent"}}

ComponentSections(choice) ==
    [l \in {Types[TypeAttr(s)] : s \in {t \in Slots : choice[t] # "absent"}} |->
        ComponentSection(choice[CHOOSE s \in Slots : Types[TypeAttr(s)] = l])]

\* the file of the spec's example: the four required parameters, the
\* defaulted one left out, four complete component sections
BaseChoice ==
    [pop_size |-> <<"1", "5", "0">>, fitness_criterion |-> <<"m", "a", "x">>,
     fitness_threshold |-> <<"3", ".", "9">>,
     reset_on_extinction |-> <<"F", "a", "l", "s", "e">>,
     no_fitness_termination |-> Absent,
     stray |-> [k \in UnknownKeys |-> Absent],
     components |-> [s \in Slots |-> "ok"]]

FileChoices ==
    [pop_size : PopSizeRaws, fitness_criterion : CriterionRaws,
     fitness_threshold : ThresholdRaws, reset_on_extinction : ResetRaws,
     no_fitness_termination : NoTerminationRaws,
     stray : [UnknownKeys -> StrayRaws], components : ComponentChoices]

\* the number of places in which a choice differs from the base file
Deviations(c) ==
    Cardinality({n \in ParamNames : c[n] # BaseChoice[n]})
    + Cardinality({k \in UnknownKeys : c.stray[k] # Absent})
    + (IF c.components # BaseChoice.components THEN 1 ELSE 0)

FileOf(c) ==
    ("NEAT" :> MkDict([n \in ParamNames |-> c[n]] @@ c.stray))
    @@ ComponentSections(c.components)

\* the files of the model: without a NEAT section, or differing from the
\* base file in at most MaxDeviations places
Files ==
    {ComponentSections(BaseChoice.components)}
    \cup {FileOf(c) : c \in {d \in FileChoices : Deviations(d) <= MaxDeviations}}

(***************************************************************************)
(* The caller of Config: disk is the file at the path (<<>>: none), config *)
(* the object the caller holds (<<>>: none), outcome the last load since   *)
(* the file was written (its result and the object held before it), saved  *)
(* the last save.                                                          *)
(***************************************************************************)
InitCfg ==
    /\ disk = <<>>
    /\ config = <<>>
    /\ outcome = <<>>
    /\ saved = <<>>

\* a constructor that returns the object whatever happened
Constructed_always(r, held) == <<r.self>>

\* the object the caller holds after the constructor call
Constructed(r, held) == IF r.err = None THEN <<r.self>> ELSE held

\* the user writes the configuration file
WriteFile ==
    /\ disk = <<>>
    /\ config = <<>>
    /\ \E f \in Files : disk' = <<f>>
    /\ UNCHANGED <<config, outcome, saved, regVars, paramVars>>

\* config = Config(genome_type, reproduction_type, species_set_type,
\*                 stagnation_type, filename)
Load ==
    /\ \E r \in {Config_init(Types, disk)} :
          /\ outcome' = <<[res |-> r, prior |-> config]>>
          /\ config' = Constructed(r, config)
    /\ UNCHANGED <<disk, saved, regVars, paramVars>>

\* config.save(filename)
Save ==
    /\ config # <<>>
    /\ \E w \in {Config_save(config[1])} :
          /\ disk' = <<w.file>>
          /\ saved' = <<[order |-> w.order, from |-> config[1]]>>
    /\ outcome' = <<>>
    /\ UNCHANGED <<config, regVars, paramVars>>

(***************************************************************************)
(* write_pretty_params as the lines it writes.  Here the name of a         *)
(* descriptor is a sequence of characters, so that its length and its      *)
(* place in the sort order are computed.                                   *)
(***************************************************************************)
\* the characters of the names of the model, in code point order
NameChars == <<"B", "_", "a", "b", "c">>

Ord(c) == CHOOSE i \in 1..Len(NameChars) : NameChars[i] = c

\* s < t for Python strings: the first differing character decides, a
\* proper prefix comes first
RECURSIVE StrLess(_, _)
StrLess(s, t) ==
    IF t = <<>> THEN FALSE
    ELSE IF s = <<>> THEN TRUE
    ELSE IF s[1] # t[1] THEN Ord(s[1]) < Ord(t[1])
    ELSE StrLess(Tail(s), Tail(t))

\* list.sort(): the place of x in a sorted list
RECURSIVE Insert(_, _)
Insert(x, sorted) ==
    IF sorted = <<>> THEN <<x>>
    ELSE IF StrLess(x, sorted[1]) THEN <<x>> \o sorted
    ELSE <<sorted[1]>> \o Insert(x, Tail(sorted))

\* list.sort()
RECURSIVE Sort(_)
Sort(l) == IF l = <<>> THEN <<>> ELSE Insert(l[Len(l)], Sort(SubSeq(l, 1, Len(l) - 1)))

\* max(len(name) for name in param_names), for a non-empty list
RECURSIVE MaxLen(_)
MaxLen(names) ==
    IF Len(names) = 1 THEN Len(names[1])
    ELSE IF Len(names[1]) >= MaxLen(Tail(names)) THEN Len(names[1])
    ELSE MaxLen(Tail(names))

\* str.ljust(width)
RECURSIVE ljust(_, _)
ljust(s, width) == IF Len(s) >= width THEN s ELSE ljust(s \o <<" ">>, width)

\* dict((p.name, p) for p in params)[name]: the last descriptor of the name
params_dict(params_, name) ==
    params_[CHOOSE i \in 1..Len(params_) :
               /\ params_[i].name = name
               /\ \A j \in (i + 1)..Len(params_) : params_[j].name # name]

\* the loop of write_pretty_params: one line per name of the sorted list
write_lines(config_, params_, param_names, longest_name) ==
    [k \in 1..Len(param_names) |->
        ljust(param_names[k], longest_name) \o <<" ", "=", " ">>
        \o format(params_dict(params_, param_names[k]), config_[param_names[k]])]

\* write_pretty_params(f, config, params): the error raised, if any, and the
\* lines written to f
write_pretty_params_lines(config_, params_) ==
    IF params_ = <<>> THEN Raise(ValueError)
    ELSE Ok(write_lines(config_, params_,
                        Sort([i \in 1..Len(params_) |-> params_[i].name]),
                        MaxLen([i \in 1..Len(params_) |-> params_[i].name])))

\* the descriptors the schemas of the model are made of
SchemaPool ==
    <<ConfigParameter(<<"b">>, "int", NoDefault),
      ConfigParameter(<<"a", "_", "c">>, "list", NoDefault),
      ConfigParameter(<<"B", "c">>, "bool", NoDefault),
      ConfigParameter(<<"a">>, "str", NoDefault)>>

\* the values the config object holds for a descriptor of the pool
SchemaValue(kind, n) ==
    CASE kind = "int" -> <<7, 0 - 3>>[n]
      [] kind = "list" -> <<<<<<"a">>, <<"b">>>>, <<>>>>[n]
      [] kind = "bool" -> <<TRUE, FALSE>>[n]
      [] kind = "str" -> <<<<"m", "a", "x">>, <<>>>>[n]

\* the schemas of the model: the descriptors of the pool, without
\* repetition, in any order
Schemas ==
    {[k \in 1..Len(ix) |-> SchemaPool[ix[k]]] :
        ix \in {jx \in SeqsUpTo(1..Len(SchemaPool), MaxSchemaLen) :
                  \A a, b \in 1..Len(jx) : a # b => jx[a] # jx[b]}}

\* write_pretty_params(f, config, params) on a config object that holds a
\* value for every descriptor of params
Render ==
    \E schema \in Schemas, n \in [1..Len(SchemaPool) -> 1..2] :
        \E c \in {[name \in {SchemaPool[i].name : i \in 1..Len(SchemaPool)} |->
                      SchemaValue(params_dict(SchemaPool, name).value_type,
                                  n[CHOOSE i \in 1..Len(SchemaPool) :
                                       SchemaPool[i].name = name])]} :
            /\ pin.op = "none"
            /\ pin' = [op |-> "render", p |-> <<schema>>, raw |-> <<>>, v |-> <<c>>]
            /\ pout' = [fmt |-> <<>>,
                        res |-> [err |-> write_pretty_params_lines(c, schema).err,
                                 v |-> write_pretty_params_lines(c, schema).v,
                                 warned |-> 0]]
            /\ UNCHANGED <<regVars, cfgVars>>

\* one pass of the loop over __params of Config.__init__, for a descriptor p
\* and a NEAT section that binds p.name to raw, or nothing
Resolve ==
    \E d \in AllDescriptorIds, raw \in RawLiterals \cup {Absent} :
        /\ pin.op = "none"
        /\ pin' = [op |-> "resolve", p |-> <<Descriptor(d[1], d[2])>>,
                   raw |-> <<raw>>, v |-> <<>>]
        /\ pout' = [fmt |-> <<>>,
                    res |-> ResolveParam(Descriptor(d[1], d[2]),
                               [s \in {"NEAT"} |->
                                   MkDict([k \in {"x"} |-> raw])])]
        /\ UNCHANGED <<regVars, cfgVars>>

(***************************************************************************)
(* Specifications.                                                         *)
(***************************************************************************)
Init == InitReg /\ InitCfg /\ InitParam

\* the registry and its callers
NextReg == AggInit \/ RegAdd \/ RegGet \/ RegIsValid

SpecReg == Init /\ [][NextReg]_vars

\* the descriptor operations on their inputs
NextParam == Interpret \/ Parse \/ FormatInterpret \/ Resolve \/ Render

SpecParam == Init /\ [][NextParam]_vars

\* the configuration file, its loads and saves
NextCfg == WriteFile \/ Load \/ Save

SpecCfg == Init /\ [][NextCfg]_vars

(***************************************************************************)
(* Claims about the descriptor operations (checked under SpecParam).       *)
(***************************************************************************)
Lit_true == <<"t", "r", "u", "e">>

Lit_false == <<"f", "a", "l", "s", "e">>

Lit_abc == <<"a", " ", "b", " ", "c">>

List_abc == <<<<"a">>, <<"b">>, <<"c">>>>

\* the error the same path raises for an Int descriptor whose raw value
\* is not a number
NumericFailure(op) ==
    LET p == ConfigParameter("x", "int", NoDefault)
        d == [k \in {"x"} |-> <<"x">>]
    IN IF op = "interpret" THEN interpret(p, d).err
       ELSE parse(p, "NEAT", [s \in {"NEAT"} |-> d]).err

\* C9: on both paths that coerce a raw string to Bool (interpret and parse),
\* the result is true exactly for the literals equal to "true" ignoring
\* case, false exactly for those equal to "false" ignoring case, and every
\* other literal is rejected with an error that is not the one a failed
\* Int/Float conversion raises.
C9_BoolCoercion ==
    (pin.op \in {"interpret", "parse"} /\ pin.p[1].value_type = "bool"
        /\ pin.raw[1] # Absent)
    => IF Lower(pin.raw[1]) = Lit_true
       THEN pout.res.err = None /\ pout.res.v[1] = TRUE
       ELSE IF Lower(pin.raw[1]) = Lit_false
       THEN pout.res.err = None /\ pout.res.v[1] = FALSE
       ELSE pout.res.err # None /\ pout.res.err # NumericFailure(pin.op)

\* C10 as stated: interpret on a mapping that binds the name to format(v)
\* returns v, for every kind and every value v of the kind, the empty list
\* included.
C10_FormatInverse ==
    pin.op = "format_interpret"
    => pout.res.err = None /\ pout.res.v[1] = pin.v[1]

\* C10 amended: interpret on a mapping that binds the name to format(v)
\* returns v for every kind and every value v of the kind except the empty
\* list; "a b c" interprets to ["a","b","c"] and format(["a","b","c"]) is
\* "a b c".
C10_FormatInverseNonEmpty ==
    /\ (pin.op = "format_interpret"
            /\ ~(pin.p[1].value_type = "list" /\ pin.v[1] = <<>>))
        => pout.res.err = None /\ pout.res.v[1] = pin.v[1]
    /\ (pin.op = "format_interpret" /\ pin.p[1].value_type = "list"
            /\ pin.v[1] = List_abc)
        => pout.fmt[1] = Lit_abc
    /\ (pin.op = "interpret" /\ pin.p[1].value_type = "list"
            /\ pin.raw[1] = Lit_abc)
        => pout.res.err = None /\ pout.res.v[1] = List_abc

\* a list of three tokens has been formatted and read back
C10_Witness ==
    /\ pin.op = "format_interpret"
    /\ pin.p[1].value_type = "list"
    /\ pin.v[1] = List_abc
    /\ pout.fmt[1] = Lit_abc
    /\ pout.res.err = None
    /\ pout.res.v[1] = List_abc

\* C11: a descriptor whose kind is not one of the five supported fails with
\* the unsupported-kind error at every use: interpret raises it whether the
\* key is present or absent and whether or not a default exists, and a pass
\* of the root load's loop over such a descriptor raises it rather than
\* substituting the default.
C11_UnsupportedKindFatal ==
    (pin.op \in {"interpret", "resolve"}
        /\ pin.p[1].value_type \in UnsupportedKinds)
    => /\ pout.res.err = UnexpectedTypeError
       /\ pout.res.warned = 0

\* the names of a schema, and the permutations of a schema
SchemaNames(schema) == {schema[i].name : i \in 1..Len(schema)}

Reorderings(schema) ==
    {[k \in 1..Len(schema) |-> schema[f[k]]] :
        f \in {g \in [1..Len(schema) -> 1..Len(schema)] :
                 \A a, b \in 1..Len(schema) : a # b => g[a] # g[b]}}

\* lines is what the claim describes for the schema: one line per
\* descriptor, in ascending order of name, each the name padded on the
\* right to the longest name of the schema, " = " and format(value)
Rendered(lines, schema, config_) ==
    /\ Len(lines) = Len(schema)
    /\ \A k \in 1..Len(lines) :
          \E i \in 1..Len(schema) :
            /\ Cardinality({n \in SchemaNames(schema) :
                               StrLess(n, schema[i].name)}) = k - 1
            /\ \E pad \in 0..Len(lines[k]) :
                  /\ Len(schema[i].name) + pad
                       = CHOOSE w \in {Len(n) : n \in SchemaNames(schema)} :
                            \A n \in SchemaNames(schema) : Len(n) <= w
                  /\ lines[k] = schema[i].name \o [j \in 1..pad |-> " "]
                                 \o <<" ", "=", " ">>
                                 \o format(schema[i], config_[schema[i].name])

\* C13: for any schema of descriptors with unique names, the empty schema
\* included, the pretty printer writes exactly one line per descriptor, in
\* ascending order of name, each line the name padded on the right to the
\* length of the longest name, " = " and format(value); and the output is
\* the same for every order in which the descriptors are passed.
C13_RenderSortedAligned ==
    pin.op = "render"
    => /\ pout.res.err = None
       /\ Rendered(pout.res.v[1], pin.p[1], pin.v[1])
       /\ \A q \in Reorderings(pin.p[1]) :
             write_pretty_params_lines(pin.v[1], q) = [err |-> None, v |-> pout.res.v]

(***************************************************************************)
(* Claims about the registry (checked under SpecReg).                      *)
(***************************************************************************)
\* the binding of name in the mapping m: <<callable>>, or <<>> if unbound
Lookup(m, name) == IF name \in DOMAIN m THEN <<m[name]>> ELSE <<>>

OtherCategory(c) == CHOOSE d \in Categories : d # c

\* C1: add(name, f) of a callable f on the registry bound to category C
\* fails with DuplicateName exactly when (C, name) was already bound, and
\* fails in no other way; an entry of the same name under the other category
\* never makes it fail, and afterwards get on each category's registry
\* returns that category's own callable.
C1_DuplicateOnlyWithinCategory ==
    (regop.op = "add" /\ IsCallable(regop.function))
    => /\ regop.err \in {None, DuplicateNameError}
       /\ regop.err = DuplicateNameError
            <=> Lookup(regop.pre[regop.cat], regop.name) # <<>>
       /\ regop.err = None
            => /\ get_in(regop.cat, functions, regop.name)
                    = [err |-> None, v |-> regop.function]
               /\ Lookup(functions[OtherCategory(regop.cat)], regop.name)
                    = Lookup(regop.pre[OtherCategory(regop.cat)], regop.name)
               /\ Lookup(regop.pre[OtherCategory(regop.cat)], regop.name) # <<>>
                    => get_in(OtherCategory(regop.cat), functions, regop.name).err = None

\* "sum" has been added under "activation" while "aggregation" holds its own
\* "sum", and each registry returns its own callable
C1_Witness ==
    /\ regop.op = "add"
    /\ regop.cat = "activation"
    /\ regop.name = "sum"
    /\ regop.err = None
    /\ aggset
    /\ get(functions, "sum") = [err |-> None, v |-> "sum_aggregation"]
    /\ get_in("activation", functions, "sum") = [err |-> None, v |-> regop.function]

\* C2: an add that fails (NotCallable or DuplicateName) leaves every entry
\* of the registry as it was and adds none.
C2_FailedAddLeavesRegistry ==
    (regop.op = "add" /\ regop.err # None)
    => /\ regop.err \in {NotCallableError, DuplicateNameError}
       /\ functions = regop.pre

\* both kinds of failed add have happened on a registry that holds entries
C2_Witness ==
    /\ regop.op = "add"
    /\ regop.cat = "aggregation"
    /\ regop.err = DuplicateNameError
    /\ regop.name = "plus"
    /\ regop.function # functions["aggregation"]["plus"]

\* C3: in every state and for every name, is_valid returns true exactly when
\* get succeeds in the same category and get fails with NameNotFound exactly
\* when is_valid is false; get and is_valid leave the registry unchanged;
\* after a successful add(name, f), get(name) returns f.
C3_IsValidIffGet ==
    /\ \A name \in QueryNames :
          /\ is_valid(functions, name) <=> get(functions, name).err = None
          /\ ~is_valid(functions, name) <=> get(functions, name).err = NameNotFoundError
    /\ regop.op \in {"get", "is_valid"} => functions = regop.pre
    /\ regop.op = "is_valid"
          => /\ regop.err = None
             /\ regop.ret[1] <=> get_in(regop.cat, functions, regop.name).err = None
    /\ regop.op = "get"
          => /\ regop.err \in {None, NameNotFoundError}
             /\ regop.err = None <=> is_valid_in(regop.cat, functions, regop.name)
    /\ (regop.op = "add" /\ regop.err = None)
          => get_in(regop.cat, functions, regop.name)
                = [err |-> None, v |-> regop.function]

\* get has returned the callable a user added, and a name that differs only
\* in case is not valid
C3_Witness ==
    /\ regop.op = "get"
    /\ regop.cat = "aggregation"
    /\ regop.name = "plus"
    /\ regop.err = None
    /\ regop.ret[1] = "plus_activation"
    /\ is_valid(functions, "sum")
    /\ ~is_valid(functions, "Sum")

\* the five built-ins the claim names, by name
FiveBuiltins ==
    [product |-> "product_aggregation", sum |-> "sum_aggregation",
     max |-> "max_aggregation", min |-> "min_aggregation",
     maxabs |-> "maxabs_aggregation"]

\* C14: the constructor of the aggregation registry registers product, sum,
\* max, min and maxabs once each under "aggregation": it succeeds on a store
\* that already holds entries under other categories, leaves those entries
\* alone and binds exactly the five names; and from then on, after any add,
\* get or is_valid call, successful or failed, is_valid is true for all
\* five and get returns the built-in callable of each.
C14_BuiltinsRegistered ==
    /\ aggset
        => \A n \in DOMAIN FiveBuiltins :
              /\ is_valid(functions, n)
              /\ get(functions, n) = [err |-> None, v |-> FiveBuiltins[n]]
    /\ regop.op = "init"
        => /\ regop.err = None
           /\ aggset
           /\ functions["aggregation"] = FiveBuiltins
           /\ \A c \in Categories \ {"aggregation"} : functions[c] = regop.pre[c]

\* the constructor has run on a store that already bound "sum" under
\* another category, and both bindings stand
C14_Witness ==
    /\ regop.op = "init"
    /\ regop.err = None
    /\ "sum" \in DOMAIN regop.pre["activation"]
    /\ regop.pre["aggregation"] = <<>>
    /\ functions["activation"]["sum"] = "plus_activation"
    /\ functions["aggregation"]["sum"] = "sum_aggregation"

(***************************************************************************)
(* Claims about the root configuration (checked under SpecCfg).            *)
(***************************************************************************)
Res == outcome[1].res

\* every attribute of a loaded configuration
AllAttrs ==
    ParamNames \cup {TypeAttr(s) : s \in Slots} \cup {ConfigAttr(s) : s \in Slots}

Complete(obj) == DOMAIN obj = AllAttrs

\* the failures the claim lists: FileNotFound, MissingRequiredSection, a
\* parameter failure, UnknownConfigItem, a failure raised by parse_config
ListedFailures == {"file", "NEAT section", "parameter", "unknown", "parse_config"}

\* the failures of the reader on a section: a value of the NEAT section that
\* cannot be interpolated, a component section that is missing or cannot be
\* interpolated
ReaderFailures == {"items", "type section"}

LoadAtomicWithin(stages) ==
    outcome # <<>>
    => IF Res.err = None
       THEN /\ Res.stage = "loaded"
            /\ config = <<Res.self>>
            /\ Complete(Res.self)
       ELSE /\ Res.stage \in stages
            /\ config = outcome[1].prior
            /\ config # <<>> => Complete(config[1])

Count(seq, x) == Cardinality({i \in 1..Len(seq) : seq[i] = x})

\* a raw string that is no literal of the kind, not even one of the
\* boolean literals the section reader accepts
MalformedFor(kind, raw) ==
    CASE kind = "int" -> ~IntOf(raw).ok
      [] kind = "float" -> ~FloatOf(raw).ok
      [] kind = "bool" -> Lower(raw) \notin BooleanTrue \cup BooleanFalse
      [] OTHER -> FALSE

\* C5: in a load that reaches a global parameter: if its key is absent and
\* it has a default, its value is the default and exactly one diagnostic is
\* emitted for it; if its key is absent and it has no default, the load
\* fails; if its key is present with a value malformed for its kind, the
\* load fails and the default is not substituted (no diagnostic says so).
C5_DefaultOnlyWhenAbsent ==
    (outcome # <<>> /\ Res.stage \notin {"file", "NEAT section"})
    => \A i \in 1..Len(params) :
          (\A j \in 1..(i - 1) : params[j].name \in DOMAIN Res.self)
          => LET p == params[i]
                 neat == disk[1]["NEAT"]
                 absent == p.name \notin DOMAIN neat
             IN /\ (absent /\ p.default # NoDefault)
                      => /\ p.name \in DOMAIN Res.self
                         /\ Res.self[p.name] = p.default[1].v
                         /\ Count(Res.warnings, p.name) = 1
                /\ (absent /\ p.default = NoDefault) => Res.err # None
                /\ (~absent /\ MalformedFor(p.value_type, neat[p.name]))
                      => /\ Res.err # None
                         /\ Count(Res.warnings, p.name) = 0

SingularOrPlural(msg, singular, plural, stray) ==
    /\ msg.keys = stray
    /\ msg.form = singular <=> Cardinality(stray) = 1
    /\ msg.form = plural <=> Cardinality(stray) >= 2

\* C6: the NEAT-section check and the parse of a component fail with
\* UnknownConfigItem exactly when every descriptor of the schema has been
\* resolved and the section has a key that is no descriptor's name; the
\* message names every such key, in the singular form for one key and in
\* the plural form for two or more.
C6_UnknownItemsReported ==
    /\ (outcome # <<>> /\ Res.stage \notin {"file", "NEAT section"})
        => LET stray == DOMAIN disk[1]["NEAT"] \ ParamNames
           IN /\ (Res.stage = "unknown" /\ Res.err = UnknownConfigItemError)
                    <=> (Res.stage # "parameter" /\ stray # {})
              /\ Res.stage = "unknown"
                    => SingularOrPlural(Res.msg,
                          "Unknown (section 'NEAT') configuration item",
                          "Unknown (section 'NEAT') configuration items:", stray)
    /\ outcome # <<>>
        => \A k \in 1..Len(Res.calls) :
              LET call == Res.calls[k]
                  names == {ComponentSchema[i].name : i \in 1..Len(ComponentSchema)}
                  stray == DOMAIN call.dict \ names
              IN /\ call.err = UnknownConfigItemError
                    <=> (FirstInterpretFailure(InterpretAll(call.dict, ComponentSchema)) = 0
                         /\ stray # {})
                 /\ call.err = UnknownConfigItemError
                    => SingularOrPlural(call.msg, "Unknown configuration item",
                                        "Unknown configuration items:", stray)

\* C7: after a successful load, save followed by a load of the file saved
\* succeeds and yields the same values of the five global parameters.
C7_SaveLoadRoundTrip ==
    (saved # <<>> /\ outcome # <<>>)
    => /\ Res.err = None
       /\ \A n \in ParamNames : config[1][n] = saved[1].from[n]

BeforeParseConfig ==
    /\ disk # <<>>
    /\ "NEAT" \in DOMAIN disk[1]
    /\ FirstParamFailure(ResolveAll(disk[1])) = 0
    /\ DOMAIN disk[1]["NEAT"] \subseteq ParamNames

\* the k-th parse_config call of the load was made for the k-th slot of the
\* parse order, with the label of that slot's type and the mapping dict
CallFor(k, dict) ==
    /\ Res.calls[k].slot = ParseOrder[k]
    /\ Res.calls[k].label = Types[TypeAttr(ParseOrder[k])]
    /\ Res.calls[k].label \in DOMAIN disk[1]
    /\ Res.calls[k].dict = dict

\* the section of the file as the reader returns it: "%%" read as "%"
Interpolated(section) ==
    [k \in DOMAIN section |-> Interpolate(section[k]).v[1]]

\* C12 as stated: no parse_config call is made unless the file exists, the
\* NEAT section exists, every global parameter resolved and the NEAT section
\* has no unknown key; then parse_config is called exactly once per
\* component slot, with exactly the raw mapping of the section named after
\* the slot's type.
C12_OncePerSlot ==
    outcome # <<>>
    => /\ Res.calls # <<>> => BeforeParseConfig
       /\ BeforeParseConfig
            => /\ Len(Res.calls) = Len(ParseOrder)
               /\ \A k \in 1..Len(Res.calls) :
                     CallFor(k, disk[1][Res.calls[k].label])

\* C12 amended: no parse_config call is made unless the file exists, the
\* NEAT section exists, every global parameter resolved and the NEAT section
\* has no unknown key; the calls are made in the parse order, at most one
\* per slot, each only after the calls before it returned, each with the
\* mapping of the section named after the slot's type as the reader returns
\* it, whatever its keys; all four are made in a load that succeeds, and a
\* load that ends in a parse_config failure ends at its last call.
C12_CallsInParseOrder ==
    outcome # <<>>
    => /\ Res.calls # <<>> => BeforeParseConfig
       /\ Len(Res.calls) <= Len(ParseOrder)
       /\ \A k \in 1..Len(Res.calls) :
             /\ CallFor(k, Interpolated(disk[1][Res.calls[k].label]))
             /\ k < Len(Res.calls) => Res.calls[k].err = None
       /\ Res.stage = "loaded" => Len(Res.calls) = Len(ParseOrder)
       /\ Res.stage = "parse_config"
            <=> (Res.calls # <<>> /\ Res.calls[Len(Res.calls)].err # None)

\* a load has called parse_config for the second slot with a mapping that
\* holds a key the schema does not name, after the first call returned
C12_Witness ==
    /\ outcome # <<>>
    /\ Len(Res.calls) = 2
    /\ Res.calls[1].err = None
    /\ Res.calls[2].slot = "species_set"
    /\ "stray1" \in DOMAIN Res.calls[2].dict
    /\ Res.calls[2].dict["stray1"] = <<"1", "%">>
    /\ Res.calls[2].err = UnknownConfigItemError

====
